---- MODULE Spec2Model ----
(***************************************************************************)
(* Model of the landing page (app/routes/_index.jsx: LandingPage,          *)
(* SplitTextPhase, HeroSection) and of the newsletter route                *)
(* (app/routes/api.newsletter.jsx: action).                                *)
(*                                                                         *)
(* The sources hold two revisions of each file.  The route is modelled     *)
(* from api.newsletter.jsx; the other revision differs in the request      *)
(* headers and in reading the error body with text() instead of json(),    *)
(* both of which can fail.  The page is modelled from the revision whose   *)
(* form is rendered (loaderDuration 1000); the other one has the same      *)
(* control flow with loaderDuration 2000 for both configurations.          *)
(*                                                                         *)
(* JavaScript values are records [t, v]: t is the type tag and v the       *)
(* printed value, so that values of different types can be compared.       *)
(***************************************************************************)
EXTENDS Integers, Sequences, FiniteSets, TLC

\* ------------------------------------------------------------------ bounds
\* granularity of the clock, in milliseconds
TickMs == 500
\* the clock stops advancing here
MaxClock == 2500
\* cap on the number of form requests that may be pending together
MaxInFlight == 2

\* -------------------------------------------------------- JavaScript values
Undefined == [t |-> "undefined", v |-> ""]
Null == [t |-> "null", v |-> ""]
Str(s) == [t |-> "string", v |-> s]
Num(s) == [t |-> "number", v |-> s]

\* ToBoolean, as applied by the handler's `!email` and `!KEY || !LIST` tests
Truthy(val) ==
  CASE val.t = "string" -> val.v # ""
    [] val.t = "number" -> val.v \notin {"0", "NaN"}
    [] OTHER -> FALSE

\* the email strings a client can type or post
EmailStrings == {"", "a@b.com", "c@d.org"}

\* JSON.stringify({email}) for a string email
StringifyEmail(s) == "{\"email\":\"" \o s \o "\"}"

\* request bodies an arbitrary client can send
RawBodies ==
  {"", "not json", "null", "42", "{}", "{\"email\":null}", "{\"email\":0}",
   "{\"email\":7}"} \cup {StringifyEmail(s) : s \in EmailStrings}

\* request.json(): ok = FALSE is a rejected promise (SyntaxError); otherwise
\* t is the type of the parsed value and email its `email` property
JSONParse(text) ==
  CASE text = "null" -> [ok |-> TRUE, t |-> "null", email |-> Undefined]
    [] text = "42" -> [ok |-> TRUE, t |-> "number", email |-> Undefined]
    [] text = "{}" -> [ok |-> TRUE, t |-> "object", email |-> Undefined]
    [] text = "{\"email\":null}" -> [ok |-> TRUE, t |-> "object", email |-> Null]
    [] text = "{\"email\":0}" -> [ok |-> TRUE, t |-> "object", email |-> Num("0")]
    [] text = "{\"email\":7}" -> [ok |-> TRUE, t |-> "object", email |-> Num("7")]
    [] \E s \in EmailStrings : text = StringifyEmail(s) ->
         [ok |-> TRUE, t |-> "object",
          email |-> Str(CHOOSE s \in EmailStrings : text = StringifyEmail(s))]
    [] OTHER -> [ok |-> FALSE, t |-> "undefined", email |-> Undefined]

\* `const {email} = body` throws a TypeError when body is null
DestructureThrows(parsed) == parsed.t \in {"null", "undefined"}

\* ------------------------------------------------------------ the handler
\* methods the router hands to a route action
Methods == {"POST", "PUT", "DELETE"}

Requests == [method : Methods, body : RawBodies]
NoReq == [method |-> "", body |-> ""]

\* context.env, possibly undefined, with each secret undefined, empty or set
Envs ==
  {[defined |-> FALSE, KLAVIYO_PRIVATE_API_KEY |-> Undefined,
    KLAVIYO_LIST_ID |-> Undefined]}
  \cup [defined : {TRUE},
        KLAVIYO_PRIVATE_API_KEY : {Undefined, Str(""), Str("pk_1")},
        KLAVIYO_LIST_ID : {Undefined, Str(""), Str("L1")}]

\* context.env?.NAME
EnvGet(e, name) == IF e.defined THEN e[name] ELSE Undefined

KlaviyoUrl == "https://a.klaviyo.com/api/profile-subscription-bulk-create-jobs/"

\* what the upstream fetch can settle with
UpstreamStatuses == {200, 202, 400, 500}
NoUpstream == [kind |-> "none", status |-> 0, detail |-> ""]
UpstreamOutcomes ==
  [kind : {"response"}, status : UpstreamStatuses, detail : {""}]
  \cup [kind : {"throw"}, status : {0}, detail : {"fetch failed", "timeout"}]

\* response.ok
Ok(status) == status >= 200 /\ status <= 299

\* what reading the upstream error body can settle with
ErrorBodies ==
  [kind : {"body"}, detail : {"{\"errors\":[\"invalid\"]}", "upstream down"}]
  \cup [kind : {"throw"}, detail : {"Unexpected token"}]

NoResp == [status |-> 0, contentType |-> "", body |-> ""]

\* a JSON body sent without the Content-Type header
JsonResponseNoHeader(text, status) ==
  [status |-> status, contentType |-> "text/plain;charset=UTF-8", body |-> text]

\* new Response(JSON.stringify(...), {status, headers: {'Content-Type': ...}})
JsonResponse(text, status) ==
  [status |-> status, contentType |-> "application/json", body |-> text]

\* new Response('...', {status}): a string body without headers gets the
\* platform's default content type
PlainResponse(text, status) ==
  [status |-> status, contentType |-> "text/plain;charset=UTF-8", body |-> text]

MethodNotAllowed == PlainResponse("Method not allowed", 405)
EmailRequired == JsonResponse("{\"error\":\"Email is required\"}", 400)
DevSuccess == JsonResponse("{\"success\":true,\"dev\":true}", 200)
Success == JsonResponse("{\"success\":true}", 200)
FailedToSubscribe == JsonResponse("{\"error\":\"Failed to subscribe\"}", 500)

\* a catch block that answers with the message of the caught error
CatchResponseLeaks(error) ==
  [status |-> 500, contentType |-> "application/json",
   body |-> "{\"error\":\"" \o error \o "\"}"]

\* the catch block: the response does not use the caught error
CatchResponse(error) == FailedToSubscribe

\* the credentials test with && in place of ||
UnconfiguredBoth(key, list) == ~Truthy(key) /\ ~Truthy(list)

\* if (!KLAVIYO_PRIVATE_API_KEY || !KLAVIYO_LIST_ID)
Unconfigured(key, list) == ~Truthy(key) \/ ~Truthy(list)

\* an outbound call whose list relationship carries the API key
OutboundCallWrongList(email, key, list) ==
  [url |-> KlaviyoUrl, method |-> "POST",
   authorization |-> "Klaviyo-API-Key " \o key.v,
   email |-> email, consent |-> "SUBSCRIBED", listId |-> key]

\* the outbound call built from the email and the two secrets
OutboundCall(email, key, list) ==
  [url |-> KlaviyoUrl, method |-> "POST",
   authorization |-> "Klaviyo-API-Key " \o key.v,
   email |-> email, consent |-> "SUBSCRIBED", listId |-> list]

VARIABLES
  env,         \* context.env of the deployment
  pc,          \* where the handler invocation stands
  req,         \* the request being handled
  origin,      \* 0: an arbitrary client; k > 0: the form's pending fetch k
  resp,        \* the response the handler returned
  calls,       \* outbound calls made for this request
  upstream,    \* what the outbound call settled with
  errBody,     \* what reading the upstream error body settled with
  log,         \* console.error lines of this invocation
  bodyRead,    \* request.json() was called
  envRead,     \* the secrets were read
  lastFail     \* request, response and upstream outcome of the last run
               \* whose upstream call failed

srvVars == <<env, pc, req, origin, resp, calls, upstream, errBody, log,
             bodyRead, envRead, lastFail>>

NoErrBody == [kind |-> "none", detail |-> ""]
NoFail == [req |-> NoReq, resp |-> NoResp, upstream |-> NoUpstream]

SrvInit ==
  /\ env \in Envs
  /\ pc = "idle"
  /\ req = NoReq
  /\ origin = 0
  /\ resp = NoResp
  /\ calls = <<>>
  /\ upstream = NoUpstream
  /\ errBody = NoErrBody
  /\ log = <<>>
  /\ bodyRead = FALSE
  /\ envRead = FALSE
  /\ lastFail = NoFail

\* a catch block that rethrows: the invocation ends without a response
CatchRethrows(lines, error) ==
  /\ log' = log \o lines \o <<"Newsletter signup error: " \o error>>
  /\ resp' = [status |-> 0, contentType |-> "", body |-> "uncaught " \o error]
  /\ pc' = "done"

\* the catch block: log the error, answer with the generic failure
Catch(lines, error) ==
  /\ log' = log \o lines \o <<"Newsletter signup error: " \o error>>
  /\ resp' = CatchResponse(error)
  /\ pc' = "done"

\* a handler without the method check
HandlerStartNoMethodCheck(r, o) ==
  /\ pc = "idle"
  /\ req' = r
  /\ origin' = o
  /\ resp' = resp
  /\ pc' = "json"
  /\ bodyRead' = TRUE
  /\ UNCHANGED <<env, calls, upstream, errBody, log, envRead, lastFail>>

\* action() up to its first await: the method check, then request.json()
HandlerStart(r, o) ==
  /\ pc = "idle"
  /\ req' = r
  /\ origin' = o
  /\ IF r.method # "POST"
       THEN /\ resp' = MethodNotAllowed
            /\ pc' = "done"
            /\ bodyRead' = bodyRead
       ELSE /\ resp' = resp
            /\ pc' = "json"
            /\ bodyRead' = TRUE
  /\ UNCHANGED <<env, calls, upstream, errBody, log, envRead, lastFail>>

\* from the parsed body to the validation error, the dev-mode answer or the
\* outbound call
HandlerAfterJson ==
  /\ pc = "json"
  /\ LET parsed == JSONParse(req.body)
         email == parsed.email
         KLAVIYO_PRIVATE_API_KEY == EnvGet(env, "KLAVIYO_PRIVATE_API_KEY")
         KLAVIYO_LIST_ID == EnvGet(env, "KLAVIYO_LIST_ID")
     IN  IF ~parsed.ok
           THEN /\ Catch(<<>>, "SyntaxError")
                /\ UNCHANGED <<calls, envRead>>
         ELSE IF DestructureThrows(parsed)
           THEN /\ Catch(<<>>, "TypeError")
                /\ UNCHANGED <<calls, envRead>>
         ELSE IF ~Truthy(email)
           THEN /\ resp' = EmailRequired
                /\ pc' = "done"
                /\ UNCHANGED <<calls, envRead, log>>
         ELSE IF Unconfigured(KLAVIYO_PRIVATE_API_KEY, KLAVIYO_LIST_ID)
           THEN /\ envRead' = TRUE
                /\ log' = Append(log, "Klaviyo credentials not configured")
                /\ resp' = DevSuccess
                /\ pc' = "done"
                /\ calls' = calls
         ELSE /\ envRead' = TRUE
              /\ calls' = Append(calls, OutboundCall(email,
                                   KLAVIYO_PRIVATE_API_KEY, KLAVIYO_LIST_ID))
              /\ pc' = "fetch"
              /\ UNCHANGED <<resp, log>>
  /\ UNCHANGED <<env, req, origin, upstream, errBody, bodyRead, lastFail>>

\* the outbound fetch settles: thrown, 2xx, or non-2xx (then the error body
\* is read)
HandlerAfterFetch(u) ==
  /\ pc = "fetch"
  /\ upstream' = u
  /\ IF u.kind = "throw"
       THEN Catch(<<>>, u.detail)
     ELSE IF ~Ok(u.status)
       THEN /\ pc' = "errbody"
            /\ UNCHANGED <<resp, log>>
     ELSE /\ resp' = Success
          /\ pc' = "done"
          /\ log' = log
  /\ UNCHANGED <<env, req, origin, calls, errBody, bodyRead, envRead, lastFail>>

\* a handler that calls the subscription API again after a non-2xx answer
HandlerAfterErrorBodyRetries(b) ==
  /\ pc = "errbody"
  /\ errBody' = b
  /\ log' = Append(log, "Klaviyo API error: " \o b.detail)
  /\ calls' = Append(calls, calls[Len(calls)])
  /\ pc' = "fetch"
  /\ UNCHANGED <<env, req, origin, resp, upstream, bodyRead, envRead, lastFail>>

\* reading the error body settles: it is logged and the generic error is
\* thrown into the catch block; a failed read lands there as well
HandlerAfterErrorBody(b) ==
  /\ pc = "errbody"
  /\ errBody' = b
  /\ IF b.kind = "throw"
       THEN Catch(<<>>, b.detail)
       ELSE Catch(<<"Klaviyo API error: " \o b.detail>>, "Failed to subscribe")
  /\ UNCHANGED <<env, req, origin, calls, upstream, bodyRead, envRead, lastFail>>

\* the upstream call of the finished run failed
UpstreamFailed ==
  \/ upstream.kind = "throw"
  \/ upstream.kind = "response" /\ ~Ok(upstream.status)

\* the invocation is over: its locals are gone
HandlerReset ==
  /\ pc' = "idle"
  /\ req' = NoReq
  /\ origin' = 0
  /\ resp' = NoResp
  /\ calls' = <<>>
  /\ upstream' = NoUpstream
  /\ errBody' = NoErrBody
  /\ log' = <<>>
  /\ bodyRead' = FALSE
  /\ envRead' = FALSE
  /\ lastFail' = IF UpstreamFailed
                   THEN [req |-> req, resp |-> resp, upstream |-> upstream]
                   ELSE lastFail
  /\ env' = env

\* an arbitrary client sends a request
ClientRequest == \E r \in Requests : HandlerStart(r, 0)

\* the response goes back to an arbitrary client
ClientResponse ==
  /\ pc = "done"
  /\ origin = 0
  /\ HandlerReset

\* ------------------------------------------------------- the landing page
\* window.innerWidth < 768
MobileBreakpoint == 768

\* viewport widths the window can take
Widths == {375, 768, 1280}

\* a configuration whose loader durations differ between mobile and desktop
PHASE_CONFIG_Differing ==
  [mobile |-> [loaderDuration |-> 1500, animationDuration |-> 2,
               translateDistance |-> 280],
   desktop |-> [loaderDuration |-> 1000, animationDuration |-> 2,
                translateDistance |-> 100]]

PHASE_CONFIG ==
  [mobile |-> [loaderDuration |-> 1000, animationDuration |-> 2,
               translateDistance |-> 280],
   desktop |-> [loaderDuration |-> 1000, animationDuration |-> 2,
                translateDistance |-> 100]]

\* const config = isMobile ? PHASE_CONFIG.mobile : PHASE_CONFIG.desktop
Config(m) == IF m THEN PHASE_CONFIG.mobile ELSE PHASE_CONFIG.desktop

\* checkMobile
CheckMobile(w) == w < MobileBreakpoint

NoTimer == [set |-> FALSE, due |-> 0]

\* the loader effect without its dependency array: it runs after every render
LoaderEffectEveryRender(deps, m, timer, now) ==
  [set |-> TRUE, due |-> now + Config(m).loaderDuration]

\* setTimeout called without its delay
LoaderEffectNoDelay(deps, m, timer, now) ==
  IF Config(m).loaderDuration # deps
    THEN [set |-> TRUE, due |-> now]
    ELSE timer

\* useEffect(..., [config.loaderDuration]) after a render with isMobile = m:
\* when the dependency differs from the one the effect last ran with, the
\* cleanup clears timer1 and the effect sets it again
LoaderEffect(deps, m, timer, now) ==
  IF Config(m).loaderDuration # deps
    THEN [set |-> TRUE, due |-> now + Config(m).loaderDuration]
    ELSE timer

\* the controls disabled while loading only
FormDisabledLoadingOnly(st) == st = "loading"

\* disabled={status === 'loading' || status === 'success'}
FormDisabled(st) == st = "loading" \/ st = "success"

ThankYou == "Thank you for joining us."
TryAgain == "Something went wrong. Please try again."

Slots == 1..MaxInFlight
FreeSlot == [stage |-> "free", body |-> ""]

VARIABLES
  mounted,     \* the mount effects of LandingPage have run
  innerWidth,  \* window.innerWidth
  isMobile,    \* useIsMobile state
  phase,       \* LandingPage phase: 1 Loading, 2 SplitText, 3 Hero
  shown,       \* the child AnimatePresence currently renders
  clock,       \* milliseconds since the first render
  timer1,      \* the loader timeout
  effectDeps,  \* config.loaderDuration the loader effect last ran with
  resizedWhileLoading, \* a resize event arrived while the loader timer ran
  formEmail,   \* HeroSection email
  status,      \* HeroSection status
  message,     \* HeroSection message
  fetches      \* the form's pending fetch('/api/newsletter') calls

uiVars == <<mounted, innerWidth, isMobile, phase, shown, clock, timer1,
            effectDeps, resizedWhileLoading>>
formVars == <<formEmail, status, message, fetches>>
vars == <<srvVars, uiVars, formVars>>

UIInit ==
  /\ mounted = FALSE
  /\ innerWidth \in Widths
  /\ isMobile = FALSE
  /\ phase = 1
  /\ shown = 1
  /\ clock = 0
  /\ timer1 = NoTimer
  /\ effectDeps = 0
  /\ resizedWhileLoading = FALSE
  /\ formEmail = ""
  /\ status = "idle"
  /\ message = ""
  /\ fetches = [k \in Slots |-> FreeSlot]

\* the effects after the first render (isMobile = false): checkMobile and the
\* resize listener, the loader timer; then the render that setIsMobile caused
Mount ==
  /\ ~mounted
  /\ mounted' = TRUE
  /\ isMobile' = CheckMobile(innerWidth)
  /\ LET first == LoaderEffect(effectDeps, isMobile, timer1, clock)
         deps == Config(isMobile).loaderDuration
     IN  /\ timer1' = LoaderEffect(deps, isMobile', first, clock)
         /\ effectDeps' = Config(isMobile').loaderDuration
  /\ UNCHANGED <<innerWidth, phase, shown, clock, resizedWhileLoading>>
  /\ UNCHANGED <<srvVars, formVars>>

\* time passes
Tick ==
  /\ mounted
  /\ clock < MaxClock
  /\ clock' = clock + TickMs
  /\ UNCHANGED <<mounted, innerWidth, isMobile, phase, shown, timer1,
                 effectDeps, resizedWhileLoading>>
  /\ UNCHANGED <<srvVars, formVars>>

\* the resize listener: checkMobile, then the render it causes
Resize(w) ==
  /\ mounted
  /\ w # innerWidth
  /\ innerWidth' = w
  /\ isMobile' = CheckMobile(w)
  /\ timer1' = LoaderEffect(effectDeps, isMobile', timer1, clock)
  /\ effectDeps' = Config(isMobile').loaderDuration
  /\ resizedWhileLoading' = (resizedWhileLoading \/ (phase = 1 /\ timer1.set))
  /\ UNCHANGED <<mounted, phase, shown, clock>>
  /\ UNCHANGED <<srvVars, formVars>>

\* timer1 expires: setPhase(2)
LoaderTimeout ==
  /\ timer1.set
  /\ clock >= timer1.due
  /\ phase' = 2
  /\ timer1' = [timer1 EXCEPT !.set = FALSE]
  /\ UNCHANGED <<mounted, innerWidth, isMobile, shown, clock, effectDeps,
                 resizedWhileLoading>>
  /\ UNCHANGED <<srvVars, formVars>>

\* AnimatePresence mode="wait": the child of the previous phase has finished
\* its exit, the child of the current phase mounts (HeroSection with its
\* initial state)
ExitComplete ==
  /\ mounted
  /\ shown # phase
  /\ shown' = phase
  /\ IF phase = 3
       THEN /\ formEmail' = ""
            /\ status' = "idle"
            /\ message' = ""
       ELSE UNCHANGED <<formEmail, status, message>>
  /\ UNCHANGED <<mounted, innerWidth, isMobile, phase, clock, timer1,
                 effectDeps, resizedWhileLoading, fetches>>
  /\ UNCHANGED srvVars

\* onAnimationComplete of the first span of SplitTextPhase:
\* handlePhase2Complete
handlePhase2Complete ==
  /\ mounted
  /\ shown = 2
  /\ phase' = 3
  /\ UNCHANGED <<mounted, innerWidth, isMobile, shown, clock, timer1,
                 effectDeps, resizedWhileLoading>>
  /\ UNCHANGED <<srvVars, formVars>>

\* onChange of the email input
ChangeEmail(v) ==
  /\ shown = 3
  /\ ~FormDisabled(status)
  /\ v # formEmail
  /\ formEmail' = v
  /\ UNCHANGED <<status, message, fetches>>
  /\ UNCHANGED <<srvVars, uiVars>>

\* handleSubmit without `if (!email) return`
handleSubmitNoGuard ==
  /\ shown = 3
  /\ ~FormDisabled(status)
  /\ \E k \in Slots : fetches[k].stage = "free"
  /\ LET k == CHOOSE j \in Slots :
                /\ fetches[j].stage = "free"
                /\ \A i \in Slots : fetches[i].stage = "free" => j <= i
     IN  /\ status' = "loading"
         /\ fetches' = [fetches EXCEPT
              ![k] = [stage |-> "sent", body |-> StringifyEmail(formEmail)]]
  /\ UNCHANGED <<formEmail, message>>
  /\ UNCHANGED <<srvVars, uiVars>>

\* handleSubmit up to its await
handleSubmit ==
  /\ shown = 3
  /\ ~FormDisabled(status)
  /\ \E k \in Slots : fetches[k].stage = "free"
  /\ IF formEmail = ""
       THEN UNCHANGED <<status, fetches>>
       ELSE LET k == CHOOSE j \in Slots :
                       /\ fetches[j].stage = "free"
                       /\ \A i \in Slots : fetches[i].stage = "free" => j <= i
            IN  /\ status' = "loading"
                /\ fetches' = [fetches EXCEPT
                     ![k] = [stage |-> "sent",
                             body |-> StringifyEmail(formEmail)]]
  /\ UNCHANGED <<formEmail, message>>
  /\ UNCHANGED <<srvVars, uiVars>>

\* the form's request reaches the route
FormRequest(k) ==
  /\ fetches[k].stage = "sent"
  /\ HandlerStart([method |-> "POST", body |-> fetches[k].body], k)
  /\ fetches' = [fetches EXCEPT ![k].stage = "handling"]
  /\ UNCHANGED <<formEmail, status, message>>
  /\ UNCHANGED uiVars

\* handleSubmit without its catch: the Error thrown on a non-2xx response
\* escapes and no state is set
FormResponseNoCatch ==
  /\ pc = "done"
  /\ origin \in Slots
  /\ IF resp.status >= 200 /\ resp.status <= 299
       THEN /\ status' = "success"
            /\ message' = ThankYou
            /\ formEmail' = ""
       ELSE UNCHANGED <<status, message, formEmail>>
  /\ fetches' = [fetches EXCEPT ![origin] = FreeSlot]
  /\ HandlerReset
  /\ UNCHANGED uiVars

\* the route's response resolves the form's fetch: the rest of handleSubmit
FormResponse ==
  /\ pc = "done"
  /\ origin \in Slots
  /\ IF Ok(resp.status)
       THEN /\ status' = "success"
            /\ message' = ThankYou
            /\ formEmail' = ""
       ELSE /\ status' = "error"
            /\ message' = TryAgain
            /\ formEmail' = formEmail
  /\ fetches' = [fetches EXCEPT ![origin] = FreeSlot]
  /\ HandlerReset
  /\ UNCHANGED uiVars

\* the form's fetch rejects (network failure): the catch of handleSubmit; a
\* response the route still produces reaches nobody
FormFetchRejects(k) ==
  /\ fetches[k].stage \in {"sent", "handling"}
  /\ status' = "error"
  /\ message' = TryAgain
  /\ fetches' = [fetches EXCEPT ![k] = FreeSlot]
  /\ origin' = IF origin = k THEN 0 ELSE origin
  /\ UNCHANGED formEmail
  /\ UNCHANGED <<env, pc, req, resp, calls, upstream, errBody, log, bodyRead,
                 envRead, lastFail>>
  /\ UNCHANGED uiVars

Init == SrvInit /\ UIInit

Next ==
  \/ ClientRequest /\ UNCHANGED <<uiVars, formVars>>
  \/ HandlerAfterJson /\ UNCHANGED <<uiVars, formVars>>
  \/ \E u \in UpstreamOutcomes :
       HandlerAfterFetch(u) /\ UNCHANGED <<uiVars, formVars>>
  \/ \E b \in ErrorBodies :
       HandlerAfterErrorBody(b) /\ UNCHANGED <<uiVars, formVars>>
  \/ ClientResponse /\ UNCHANGED <<uiVars, formVars>>
  \/ Mount
  \/ Tick
  \/ \E w \in Widths : Resize(w)
  \/ LoaderTimeout
  \/ ExitComplete
  \/ handlePhase2Complete
  \/ \E v \in EmailStrings : ChangeEmail(v)
  \/ handleSubmit
  \/ \E k \in Slots : FormRequest(k)
  \/ FormResponse
  \/ \E k \in Slots : FormFetchRejects(k)

Spec == Init /\ [][Next]_vars

\* a step of the handler invocation in progress
HandlerStep ==
  /\ \/ HandlerAfterJson
     \/ \E u \in UpstreamOutcomes : HandlerAfterFetch(u)
     \/ \E b \in ErrorBodies : HandlerAfterErrorBody(b)
     \/ ClientResponse
  /\ UNCHANGED <<uiVars, formVars>>

\* every request settles: each await of the handler completes, the form's
\* request is taken up by the route and its response reaches the form
FairSpec ==
  /\ Spec
  /\ WF_vars(HandlerStep)
  /\ SF_vars(\E k \in Slots : FormRequest(k))
  /\ WF_vars(FormResponse)

\* ----------------------------------------------------------------- claims
\* the finished or running invocation, seen from outside
Parsed == JSONParse(req.body)
Running == pc # "idle"
Done == pc = "done"
IsPost == req.method = "POST"
\* the body is JSON and carries a non-empty email
ValidEmail ==
  Parsed.ok /\ Parsed.t = "object" /\ Parsed.email.t \in {"string", "number"}
  /\ Parsed.email \notin {Str(""), Num("0")}
\* the body is JSON and its email is absent or empty
NoEmail ==
  Parsed.ok /\ Parsed.email \in {Undefined, Null, Str(""), Num("0")}
KeyPresent ==
  env.defined /\ env.KLAVIYO_PRIVATE_API_KEY.t = "string"
  /\ env.KLAVIYO_PRIVATE_API_KEY.v # ""
ListPresent ==
  env.defined /\ env.KLAVIYO_LIST_ID.t = "string" /\ env.KLAVIYO_LIST_ID.v # ""
Upstream2xx == upstream.kind = "response" /\ upstream.status \in 200..299
UpstreamNon2xx == upstream.kind = "response" /\ upstream.status \notin 200..299
JsonType == "application/json"
Generic500 ==
  [status |-> 500, contentType |-> JsonType,
   body |-> "{\"error\":\"Failed to subscribe\"}"]

\* C1: a POST with a non-empty email and both secrets present makes exactly
\* one outbound call, carrying the submitted email and the configured list
\* id; a 2xx upstream answer gives 200 {success:true} without the dev marker,
\* a non-2xx one gives 500 {error:'Failed to subscribe'}.
C1_OneCallAndMapping ==
  (Running /\ IsPost /\ ValidEmail /\ KeyPresent /\ ListPresent) =>
    /\ pc = "json" => calls = <<>>
    /\ pc # "json" =>
         /\ Len(calls) = 1
         /\ calls[1].email = Parsed.email
         /\ calls[1].listId = env.KLAVIYO_LIST_ID
         /\ calls[1].authorization =
              "Klaviyo-API-Key " \o env.KLAVIYO_PRIVATE_API_KEY.v
    /\ (Done /\ Upstream2xx) =>
         resp = [status |-> 200, contentType |-> JsonType,
                 body |-> "{\"success\":true}"]
    /\ (Done /\ UpstreamNon2xx) => resp = Generic500

C1_Witness ==
  /\ Done /\ IsPost /\ ValidEmail /\ KeyPresent /\ ListPresent
  /\ Len(calls) = 1
  /\ upstream.status = 202
  /\ resp.status = 200

\* C2: every POST whose email is empty or missing is answered with
\* 400 {error:'Email is required'} and makes no outbound call, whatever the
\* secrets are.
C2_MissingEmailIs400 ==
  (Done /\ IsPost /\ NoEmail) =>
    /\ resp.status = 400
    /\ resp.body = "{\"error\":\"Email is required\"}"
    /\ calls = <<>>

\* C3: a request whose method is not POST is answered with 405, and its body
\* and the secrets are never read and no outbound call is made.
C3_MethodNotAllowed ==
  (Running /\ ~IsPost) =>
    /\ Done
    /\ resp.status = 405
    /\ ~bodyRead
    /\ ~envRead
    /\ calls = <<>>

C3_Witness == Done /\ req.method = "DELETE" /\ resp.status = 405

\* C4: a POST with a non-empty email while either secret is absent is
\* answered with 200 {success:true, dev:true}, never with an error, and makes
\* no outbound call.
C4_DevMode ==
  (Running /\ IsPost /\ ValidEmail /\ ~(KeyPresent /\ ListPresent)) =>
    /\ calls = <<>>
    /\ pc \in {"json", "done"}
    /\ Done => resp = [status |-> 200, contentType |-> JsonType,
                       body |-> "{\"success\":true,\"dev\":true}"]

C4_Witness ==
  /\ Done /\ IsPost /\ ValidEmail
  /\ KeyPresent /\ ~ListPresent
  /\ resp.status = 200

\* C5 (as claimed): every response of the handler, the method rejection
\* included, carries a JSON content type.
C5_AllResponsesJson == Done => resp.contentType = JsonType

\* C5 (amended): every response to a POST (validation error, dev-mode
\* success, live success, generic failure) carries a JSON content type; the
\* 405 method rejection does not.
C5_PostResponsesJson ==
  Done => (resp.contentType = JsonType <=> IsPost)

C5_Witness == Done /\ IsPost /\ resp.status = 400 /\ resp.contentType = JsonType

\* C6: when the upstream call fails (non-2xx with any error body, or a
\* thrown error), the response is 500 {error:'Failed to subscribe'} and is
\* the same as that of any earlier run of the same request whose upstream
\* call failed in another way.
C6_FailureResponseIndependent ==
  (Done /\ (UpstreamNon2xx \/ upstream.kind = "throw")) =>
    /\ resp = Generic500
    /\ lastFail.req = req => lastFail.resp = resp

C6_Witness ==
  /\ Done /\ UpstreamNon2xx /\ errBody.kind = "body"
  /\ lastFail.req = req
  /\ lastFail.upstream.kind = "throw"

\* C7: for a POST, an exception raised while handling it (body not JSON,
\* destructuring a null body, the outbound call throwing, the non-2xx throw,
\* reading the upstream error body throwing) ends in the response
\* 500 {error:'Failed to subscribe'}; the invocation always ends with a
\* response.
C7_ExceptionsCaught ==
  /\ Done => resp.status # 0
  /\ (Done /\ IsPost /\ (\/ ~Parsed.ok
                         \/ Parsed.t = "null"
                         \/ upstream.kind = "throw"
                         \/ UpstreamNon2xx
                         \/ errBody.kind = "throw")) => resp = Generic500

C7_Witness ==
  /\ Done /\ IsPost /\ errBody.kind = "throw" /\ resp.status = 500

\* C8: the phase starts at Loading and only ever steps Loading -> SplitText
\* -> Hero: no step moves it backward, skips SplitText or leaves Hero.
C8_PhaseOrder ==
  /\ ~mounted => phase = 1
  /\ [][\/ phase' = phase
        \/ phase = 1 /\ phase' = 2
        \/ phase = 2 /\ phase' = 3]_vars

C8_Witness ==
  /\ phase = 3 /\ shown = 3
  /\ isMobile
  /\ clock > PHASE_CONFIG.mobile.loaderDuration

\* the form's pending requests
Pending == {k \in Slots : fetches[k].stage # "free"}
\* this step issues the form's request k
Issues(k) == fetches[k].stage = "free" /\ fetches'[k].stage = "sent"
\* this step settles the form's request k
Settles(k) == fetches[k].stage # "free" /\ fetches'[k].stage = "free"
\* this step hands the route's response to the form's request k
Delivers(k) == pc = "done" /\ origin = k /\ pc' = "idle"

\* C9: while the status is loading or success no request is issued, and at
\* most one request of the form is pending at any time.
C9_SubmitBlocked ==
  /\ [](Cardinality(Pending) <= 1)
  /\ [][\A k \in Slots :
          Issues(k) => (status \notin {"loading", "success"} /\ Pending = {})]_vars

C9_Witness ==
  /\ status = "loading"
  /\ fetches[1].stage = "handling"
  /\ fetches[2].stage = "free"

\* C10: no request is issued with an empty email, and the status and message
\* change only when a request is issued or settles (or the form mounts);
\* issuing sets the status to loading, posts the typed email and issues one
\* request; a 2xx response sets success and clears the email; a non-2xx
\* response or a rejected fetch sets error with the retry message and keeps
\* the email.
C10_SubmitOutcome ==
  [][/\ \A k \in Slots : Issues(k) =>
          /\ formEmail # ""
          /\ formEmail' = formEmail
          /\ status' = "loading"
          /\ message' = message
          /\ fetches'[k].body = "{\"email\":\"" \o formEmail \o "\"}"
          /\ \A j \in Slots \ {k} : fetches'[j] = fetches[j]
     /\ (status' # status \/ message' # message) =>
          \/ \E k \in Slots : Issues(k) \/ Settles(k)
          \/ shown # 3 /\ shown' = 3
     /\ \A k \in Slots : Settles(k) =>
          IF Delivers(k) /\ resp.status \in 200..299
            THEN /\ status' = "success"
                 /\ message' = "Thank you for joining us."
                 /\ formEmail' = ""
            ELSE /\ status' = "error"
                 /\ message' = "Something went wrong. Please try again."
                 /\ formEmail' = formEmail]_vars

C10_Witness ==
  /\ status = "error"
  /\ message = "Something went wrong. Please try again."
  /\ formEmail # ""
  /\ Pending = {}

\* C11: the step from Loading to SplitText is taken only when the clock,
\* which counts from the mount, has reached the loader duration of the
\* current configuration, resize events during Loading included.
C11_LoaderDelayElapsed ==
  [][(phase = 1 /\ phase' # 1) =>
       /\ phase' = 2
       /\ clock >= 1000
       /\ clock >= Config(isMobile).loaderDuration]_vars

C11_Witness ==
  /\ phase = 2
  /\ resizedWhileLoading
  /\ ~timer1.set
  /\ clock >= 1000

\* C12: once the status is success and the confirmation panel is shown, every
\* later step leaves the status success and HeroSection mounted.
C12_SuccessPersists ==
  [][(status = "success" /\ shown = 3) =>
       (status' = "success" /\ shown' = 3 /\ phase' = 3)]_vars

C12_Witness ==
  /\ status = "success"
  /\ shown = 3
  /\ formEmail = ""
  /\ Done
  /\ origin = 0

\* C13: a resize step changes only window.innerWidth and the mobile flag
\* (and with it the animation constants); the phase, the rendered child, the
\* loader timer, the clock, the form and the handler stay as they are, so
\* the steps that change the phase are enabled exactly as before.
C13_ResizeFrame ==
  [][(innerWidth' # innerWidth) =>
       /\ isMobile' = (innerWidth' < 768)
       /\ phase' = phase
       /\ shown' = shown
       /\ timer1' = timer1
       /\ clock' = clock
       /\ mounted' = mounted
       /\ UNCHANGED <<srvVars, formVars>>]_vars

C13_Witness ==
  /\ resizedWhileLoading
  /\ phase = 1
  /\ timer1 = [set |-> TRUE, due |-> 1000]
  /\ clock > 0
  /\ isMobile

\* C14: no invocation makes more than one outbound call, and none after its
\* upstream call has settled; a form in status error has no request pending
\* and requests are issued by handleSubmit only; from error, handleSubmit
\* with a non-empty email is enabled, sets the status to loading and leaves
\* exactly one request pending.
C14_NoRetry ==
  /\ [](Len(calls) <= 1)
  /\ [][(upstream.kind # "none" /\ pc' # "idle") => calls' = calls]_vars
  /\ [](status = "error" => Pending = {})
  /\ [][\A k \in Slots : Issues(k) => handleSubmit]_vars
  /\ []((status = "error" /\ formEmail # "") => ENABLED handleSubmit)
  /\ [][(status = "error" /\ formEmail # "" /\ handleSubmit) =>
          /\ status' = "loading"
          /\ Pending = {}
          /\ Cardinality({k \in Slots : fetches'[k].stage = "sent"}) = 1
          /\ \A k \in Slots : fetches'[k].stage \in {"free", "sent"}]_vars

C14_Witness ==
  /\ status = "loading"
  /\ message = "Something went wrong. Please try again."
  /\ Cardinality(Pending) = 1
  /\ lastFail.req.body = "{\"email\":\"a@b.com\"}"

\* C15: when every request settles, a form in status loading eventually
\* reaches success or error; the status is loading exactly while a request
\* of the form is pending; and success or error is only entered from
\* loading.
C15_LoadingEnds ==
  /\ [](status = "loading" <=> Pending # {})
  /\ [][(status' # status /\ status' \in {"success", "error"}) =>
          status = "loading"]_vars
  /\ (status = "loading") ~> (status \in {"success", "error"})

C15_Witness ==
  /\ status = "success"
  /\ message = "Thank you for joining us."
  /\ Pending = {}
  /\ pc = "idle"
  /\ lastFail.req = NoReq
====
